---- MODULE Spec2Model ----
(***************************************************************************)
(* Model of the JESD204B control-plane code:                               *)
(*   - test/model/link.py    LinkLayer (alignment character insert/remove) *)
(*   - jesd204b/common.py    configuration descriptor and link settings    *)
(*   - jesd204b/phy/gth.py   GTHChannelPLL / GTHQuadPLL compute_config     *)
(* Frequencies are in MHz; octets and tagged octets are naturals.          *)
(***************************************************************************)
EXTENDS Integers, Sequences, FiniteSets, TLC

VARIABLES
    link,           \* LinkLayer object: frames_per_multiframe, scrambled
    scrambled_arg,  \* the `scrambled` argument given to LinkLayer.__init__
    orig,           \* the lane stream as the caller built it
    arg,            \* value of the argument at entry of the last call
    lanes,          \* the caller's lane stream object (frames are shared)
    new_lanes,      \* value returned by the last call
    link_pc,        \* "new", "inserted", "removed", "received", "decoded",
                    \* and the steps of a stream given in two calls
    split,          \* frames per lane given to the first of two calls
    first_out,      \* value returned by the first of two calls
    cd,             \* JESD204BConfigurationData attributes
    nset,           \* number of attribute assignments made on cd
    octets,         \* last result of get_octets (<<>> before any call)
    settings,       \* JESD204BSettings object
    lid_arg,        \* lid argument of the last get_configuration_data
    cfg_pc,         \* "idle", "fresh", "octets", "configured"
    refclk_freq,    \* compute_config argument (MHz)
    linerate,       \* compute_config argument (MHz)
    config,         \* result of the last compute_config
    pll_pc          \* "idle", "ready", "cpll", "qpll"

vars == <<link, scrambled_arg, orig, arg, lanes, new_lanes, link_pc,
          split, first_out,
          cd, nset, octets, settings, lid_arg, cfg_pc,
          refclk_freq, linerate, config, pll_pc>>

linkVars == <<link, scrambled_arg, orig, arg, lanes, new_lanes, link_pc,
              split, first_out>>
cfgVars  == <<cd, nset, octets, settings, lid_arg, cfg_pc>>
pllVars  == <<refclk_freq, linerate, config, pll_pc>>

----------------------------------------------------------------------------
(* Bounds of the model *)

MaxFrames == 5
MaxLanes == 2
MaxK == 3
MaxData == 1
MaxSets == 2
MaxBits == 9
MaxRefMult == 4
MaxRateMult == 80
MaxReceived == 3

----------------------------------------------------------------------------
(* Bit operations on naturals (Python's |, & on non-negative ints) *)

RECURSIVE BitOr(_, _)
BitOr(a, b) ==
    IF a = 0 THEN b
    ELSE IF b = 0 THEN a
    ELSE (IF a % 2 = 1 \/ b % 2 = 1 THEN 1 ELSE 0)
         + 2 * BitOr(a \div 2, b \div 2)

RECURSIVE BitAnd(_, _)
BitAnd(a, b) ==
    IF a = 0 \/ b = 0 THEN 0
    ELSE (IF a % 2 = 1 /\ b % 2 = 1 THEN 1 ELSE 0)
         + 2 * BitAnd(a \div 2, b \div 2)

RECURSIVE Pow2(_)
Pow2(n) == IF n = 0 THEN 1 ELSE 2 * Pow2(n - 1)

----------------------------------------------------------------------------
(* common.py: control characters *)

control_characters ==
    [R |-> 28, A |-> 124, Q |-> 156, K |-> 188, F |-> 252]

\* the ninth "is control character" tag bit of a tagged octet
is_control_character == 256

----------------------------------------------------------------------------
(* link.py: LinkLayer *)

LinkLayer(frames_per_multiframe, scrambled) ==
    [frames_per_multiframe |-> frames_per_multiframe, scrambled |-> FALSE]

last_frame_of_multiframe(self, n) ==
    ((n + 1) % self.frames_per_multiframe) = 0

\* InsertDn with the two alignment codes exchanged
InsertDn_Swapped(self, n, dn, last_dn) ==
    IF self.scrambled
    THEN LET d1 == IF dn = 124 /\ last_frame_of_multiframe(self, n)
                   THEN BitOr(is_control_character, control_characters.A)
                   ELSE dn
         IN  IF d1 = 252
             THEN BitOr(is_control_character, control_characters.F)
             ELSE d1
    ELSE IF dn = last_dn
         THEN IF last_frame_of_multiframe(self, n)
              THEN BitOr(is_control_character, control_characters.F)
              ELSE BitOr(is_control_character, control_characters.A)
         ELSE dn

\* body of the insertion loop: the value written to frame[-1]
InsertDn(self, n, dn, last_dn) ==
    IF self.scrambled
    THEN LET d1 == IF dn = 124 /\ last_frame_of_multiframe(self, n)
                   THEN BitOr(is_control_character, control_characters.A)
                   ELSE dn
         IN  IF d1 = 252
             THEN BitOr(is_control_character, control_characters.F)
             ELSE d1
    ELSE IF dn = last_dn
         THEN IF last_frame_of_multiframe(self, n)
              THEN BitOr(is_control_character, control_characters.A)
              ELSE BitOr(is_control_character, control_characters.F)
         ELSE dn

\* RemoveDn that restores only the multiframe alignment code
RemoveDn_NoF(self, n, dn, last_dn) ==
    IF BitAnd(dn, is_control_character) # 0
    THEN LET d1 == BitAnd(dn, 255)
         IN  IF self.scrambled
             THEN IF d1 = control_characters.A
                  THEN 124
                  ELSE IF control_characters.F # 0 THEN 252 ELSE d1
             ELSE IF d1 = control_characters.A THEN last_dn ELSE d1
    ELSE dn

\* body of the removal loop: the value written to frame[-1]
RemoveDn(self, n, dn, last_dn) ==
    IF BitAnd(dn, is_control_character) # 0
    THEN LET d1 == BitAnd(dn, 255)
         IN  IF self.scrambled
             THEN IF d1 = control_characters.A
                  THEN 124
                  ELSE IF control_characters.F # 0 THEN 252 ELSE d1
             ELSE IF d1 = control_characters.A
                  THEN last_dn
                  ELSE IF d1 = control_characters.F THEN last_dn ELSE d1
    ELSE dn

FinalOctet(frame) == frame[Len(frame)]

\* SetFinalOctet that writes the first octet of the frame
SetFinalOctet_First(frame, dn) == [frame EXCEPT ![1] = dn]

SetFinalOctet(frame, dn) == [frame EXCEPT ![Len(frame)] = dn]

RECURSIVE InsertLane(_, _, _, _)

\* InsertLane that carries the frame's original final octet as last_dn
InsertLane_OrigCarry(self, lane, j, last_dn) ==
    IF j > Len(lane) THEN <<>>
    ELSE LET dn == InsertDn(self, j - 1, FinalOctet(lane[j]), last_dn)
         IN  <<SetFinalOctet(lane[j], dn)>>
             \o InsertLane(self, lane, j + 1, FinalOctet(lane[j]))

\* frames j..Len(lane) of one lane, frame index n = j - 1
InsertLane(self, lane, j, last_dn) ==
    IF j > Len(lane) THEN <<>>
    ELSE LET dn == InsertDn(self, j - 1, FinalOctet(lane[j]), last_dn)
         IN  <<SetFinalOctet(lane[j], dn)>>
             \o InsertLane(self, lane, j + 1, dn)

RECURSIVE RemoveLane(_, _, _, _)
RemoveLane(self, lane, j, last_dn) ==
    IF j > Len(lane) THEN <<>>
    ELSE LET dn == RemoveDn(self, j - 1, FinalOctet(lane[j]), last_dn)
         IN  <<SetFinalOctet(lane[j], dn)>>
             \o RemoveLane(self, lane, j + 1, dn)

\* last final octet written for a lane, -1 for a lane without frames
LastWritten(lane) ==
    IF Len(lane) = 0 THEN -1 ELSE FinalOctet(lane[Len(lane)])

\* insert_alignment_characters that starts a lane with the last_dn left by
\* the lane before it
insert_alignment_characters_CarryAcross(self, ls) ==
    [i \in 1..Len(ls) |->
        InsertLane(self, ls[i], 1,
            IF i = 1 THEN -1
            ELSE LastWritten(InsertLane(self, ls[i - 1], 1, -1)))]

insert_alignment_characters(self, ls) ==
    [i \in 1..Len(ls) |-> InsertLane(self, ls[i], 1, -1)]

remove_alignment_characters(self, ls) ==
    [i \in 1..Len(ls) |-> RemoveLane(self, ls[i], 1, -1)]

----------------------------------------------------------------------------
(* common.py: configuration data *)

Field(octet, offset, width) ==
    [octet |-> octet, offset |-> offset, width |-> width]

configuration_data_length == 14

configuration_data_fields ==
    [did       |-> Field(0,  0, 8),
     bid       |-> Field(1,  0, 4),
     adjcnt    |-> Field(1,  4, 8),
     lid       |-> Field(2,  0, 5),
     phadj     |-> Field(2,  5, 5),
     adjdir    |-> Field(2,  6, 6),
     l         |-> Field(3,  0, 5),
     scr       |-> Field(3,  7, 8),
     f         |-> Field(4,  0, 8),
     k         |-> Field(5,  0, 5),
     m         |-> Field(6,  0, 8),
     n         |-> Field(7,  0, 5),
     cs        |-> Field(7,  6, 8),
     np        |-> Field(8,  0, 5),
     subclassv |-> Field(8,  5, 8),
     s         |-> Field(9,  0, 5),
     jesdv     |-> Field(9,  5, 8),
     cf        |-> Field(10, 0, 5),
     hd        |-> Field(10, 5, 8),
     res1      |-> Field(11, 0, 8),
     res2      |-> Field(12, 0, 8),
     chksum    |-> Field(13, 0, 8)]

\* the keys of configuration_data_fields in the order the dict lists them
FieldOrder ==
    <<"did", "bid", "adjcnt", "lid", "phadj", "adjdir", "l", "scr", "f",
      "k", "m", "n", "cs", "np", "subclassv", "s", "jesdv", "cf", "hd",
      "res1", "res2", "chksum">>

FieldNames == DOMAIN configuration_data_fields

\* JESD204BConfigurationData.__init__: every attribute is 0
JESD204BConfigurationData == [name \in FieldNames |-> 0]

\* the loop of get_octets from field number k on; octets[i] of the code is
\* octs[i + 1] here
RECURSIVE PackFields(_, _, _)

\* PackFields that shifts the attribute without masking it to the width
PackFields_NoMask(self, k, octs) ==
    IF k > Len(FieldOrder) THEN octs
    ELSE LET name == FieldOrder[k]
             field == configuration_data_fields[name]
             field_value == self[name]
         IN  PackFields(self, k + 1,
                 [octs EXCEPT ![field.octet + 1] =
                     BitOr(@, field_value * Pow2(field.offset))])

PackFields(self, k, octs) ==
    IF k > Len(FieldOrder) THEN octs
    ELSE LET name == FieldOrder[k]
             field == configuration_data_fields[name]
             field_value == BitAnd(self[name], Pow2(field.width) - 1)
         IN  PackFields(self, k + 1,
                 [octs EXCEPT ![field.octet + 1] =
                     BitOr(@, field_value * Pow2(field.offset))])

\* sum(octets[:hi])
RECURSIVE SumOctets(_, _)
SumOctets(octs, hi) ==
    IF hi = 0 THEN 0 ELSE octs[hi] + SumOctets(octs, hi - 1)

\* get_octets with the two reserved octets included in the checksum
get_octets_SumReserved(self) ==
    LET packed == PackFields(self, 1,
                      [i \in 1..configuration_data_length |-> 0])
        f_chk  == configuration_data_fields["chksum"]
    IN  [packed EXCEPT ![f_chk.octet + 1] =
            BitAnd(SumOctets(packed, 13), 255)]

\* get_octets that stores the sum without reducing it to an octet
get_octets_NoWrap(self) ==
    LET packed == PackFields(self, 1,
                      [i \in 1..configuration_data_length |-> 0])
        f_chk  == configuration_data_fields["chksum"]
    IN  [packed EXCEPT ![f_chk.octet + 1] = SumOctets(packed, 10 + 1)]

get_octets(self) ==
    LET packed == PackFields(self, 1,
                      [i \in 1..configuration_data_length |-> 0])
        f_chk  == configuration_data_fields["chksum"]
    IN  [packed EXCEPT ![f_chk.octet + 1] =
            BitAnd(SumOctets(packed, 10 + 1), 255)]

----------------------------------------------------------------------------
(* common.py: settings *)

JESD204BTransportSettings(f, s, k, cs) ==
    [f |-> f, s |-> s, k |-> k, cs |-> cs]

JESD204BPhysicalSettings(l, m, n, np, subclassv) ==
    [l |-> l, m |-> m, n |-> n, np |-> np, subclassv |-> subclassv,
     adjcnt |-> 0, adjdir |-> 0, phadj |-> 0, jesdv |-> 1]

JESD204BSettings(phy_settings, transport_settings, did, bid, hd) ==
    LET nibbles_per_word == phy_settings.np \div 4
        octets_per_frame == (transport_settings.s * nibbles_per_word) \div 2
    IN  [phy |-> phy_settings, transport |-> transport_settings,
         did |-> did, bid |-> bid, hd |-> hd,
         nconverters |-> phy_settings.m,
         nlanes |-> phy_settings.l,
         samples_per_frame |-> transport_settings.s,
         nibbles_per_word |-> nibbles_per_word,
         octets_per_frame |-> octets_per_frame,
         octets_per_lane |->
             (octets_per_frame * phy_settings.m) \div phy_settings.l]

\* the descriptor get_configuration_data fills in, with frames/multiframe
\* written as the count itself
ConfigurationDataOf_PlainK(self, lid) ==
    [JESD204BConfigurationData EXCEPT
        !["did"] = self.did, !["bid"] = self.bid, !["lid"] = lid,
        !["l"] = self.phy.l - 1, !["m"] = self.phy.m - 1,
        !["n"] = self.phy.n - 1, !["np"] = self.phy.np - 1,
        !["subclassv"] = self.phy.subclassv,
        !["adjcnt"] = self.phy.adjcnt, !["adjdir"] = self.phy.adjdir,
        !["phadj"] = self.phy.phadj, !["jesdv"] = self.phy.jesdv,
        !["f"] = self.transport.f - 1, !["k"] = self.transport.k,
        !["s"] = self.transport.s - 1, !["cs"] = self.transport.cs,
        !["hd"] = self.hd]

\* the descriptor get_configuration_data fills in
ConfigurationDataOf(self, lid) ==
    [JESD204BConfigurationData EXCEPT
        !["did"] = self.did, !["bid"] = self.bid, !["lid"] = lid,
        !["l"] = self.phy.l - 1, !["m"] = self.phy.m - 1,
        !["n"] = self.phy.n - 1, !["np"] = self.phy.np - 1,
        !["subclassv"] = self.phy.subclassv,
        !["adjcnt"] = self.phy.adjcnt, !["adjdir"] = self.phy.adjdir,
        !["phadj"] = self.phy.phadj, !["jesdv"] = self.phy.jesdv,
        !["f"] = self.transport.f - 1, !["k"] = self.transport.k - 1,
        !["s"] = self.transport.s - 1, !["cs"] = self.transport.cs,
        !["hd"] = self.hd]

get_configuration_data(self, lid) == get_octets(ConfigurationDataOf(self, lid))

get_configuration_checksum(self, lid) ==
    get_configuration_data(self, lid)[configuration_data_length]

----------------------------------------------------------------------------
(* gth.py: clock synthesis.  Frequencies are whole numbers of MHz; the     *)
(* quotient refclk_freq*n/m is kept as the fraction num/den and compared   *)
(* by cross multiplication, which is what the float arithmetic of the code *)
(* yields for integral inputs of this size.                                *)

GTHChannelPLL_n1 == <<4, 5>>
GTHChannelPLL_n2 == <<1, 2, 3, 4, 5>>
GTHChannelPLL_m  == <<1, 2>>
GTH_d            == <<1, 2, 4, 8, 16>>
GTHQuadPLL_n     == <<16, 20, 32, 40, 60, 64, 66, 75, 80, 84,
                      90, 96, 100, 112, 120, 125, 150, 160>>
GTHQuadPLL_m     == <<1, 2, 3, 4>>

Frac(num, den) == [num |-> num, den |-> den]

\* lo <= q <= hi
FracBetween(lo, q, hi) == lo * q.den <= q.num /\ q.num <= hi * q.den

\* falling out of a loop without a return; at the end of compute_config it
\* is the ValueError the function raises
ValueError == [status |-> "ValueError"]

\* GTHChannelPLL.compute_config: `for d in 1, 2, 4, 8, 16` from GTH_d[id] on
RECURSIVE ChannelLoopD(_, _, _, _, _, _, _)
ChannelLoopD(refclk, rate, n1, n2, m, vco_freq, id) ==
    IF id > Len(GTH_d) THEN ValueError
    ELSE LET d == GTH_d[id]
         IN  IF vco_freq.num * 2 = rate * (vco_freq.den * d)
             THEN [status |-> "ok", n1 |-> n1, n2 |-> n2, m |-> m, d |-> d,
                   vco_freq |-> vco_freq, clkin |-> refclk,
                   linerate |-> rate]
             ELSE ChannelLoopD(refclk, rate, n1, n2, m, vco_freq, id + 1)

RECURSIVE ChannelLoopM(_, _, _, _, _)

\* ChannelLoopM with the VCO band taken as an open interval
ChannelLoopM_OpenBand(refclk, rate, n1, n2, im) ==
    IF im > Len(GTHChannelPLL_m) THEN ValueError
    ELSE LET m == GTHChannelPLL_m[im]
             vco_freq == Frac(refclk * (n1 * n2), m)
             found == IF 2000 * m < vco_freq.num /\ vco_freq.num < 6250 * m
                      THEN ChannelLoopD(refclk, rate, n1, n2, m, vco_freq, 1)
                      ELSE ValueError
         IN  IF found # ValueError THEN found
             ELSE ChannelLoopM(refclk, rate, n1, n2, im + 1)

\* `for m in 1, 2` from GTHChannelPLL_m[im] on
ChannelLoopM(refclk, rate, n1, n2, im) ==
    IF im > Len(GTHChannelPLL_m) THEN ValueError
    ELSE LET m == GTHChannelPLL_m[im]
             vco_freq == Frac(refclk * (n1 * n2), m)
             found == IF FracBetween(2000, vco_freq, 6250)
                      THEN ChannelLoopD(refclk, rate, n1, n2, m, vco_freq, 1)
                      ELSE ValueError
         IN  IF found # ValueError THEN found
             ELSE ChannelLoopM(refclk, rate, n1, n2, im + 1)

\* `for n2 in 1, 2, 3, 4, 5` from GTHChannelPLL_n2[i2] on
RECURSIVE ChannelLoopN2(_, _, _, _)
ChannelLoopN2(refclk, rate, n1, i2) ==
    IF i2 > Len(GTHChannelPLL_n2) THEN ValueError
    ELSE LET found == ChannelLoopM(refclk, rate, n1, GTHChannelPLL_n2[i2], 1)
         IN  IF found # ValueError THEN found
             ELSE ChannelLoopN2(refclk, rate, n1, i2 + 1)

RECURSIVE ChannelLoopN1(_, _, _)

\* ChannelLoopN1 that tries the n1 values from the last to the first
ChannelLoopN1_Reverse(refclk, rate, i1) ==
    IF i1 > Len(GTHChannelPLL_n1) THEN ValueError
    ELSE LET n1 == GTHChannelPLL_n1[Len(GTHChannelPLL_n1) + 1 - i1]
             found == ChannelLoopN2(refclk, rate, n1, 1)
         IN  IF found # ValueError THEN found
             ELSE ChannelLoopN1(refclk, rate, i1 + 1)

\* `for n1 in 4, 5` from GTHChannelPLL_n1[i1] on
ChannelLoopN1(refclk, rate, i1) ==
    IF i1 > Len(GTHChannelPLL_n1) THEN ValueError
    ELSE LET found == ChannelLoopN2(refclk, rate, GTHChannelPLL_n1[i1], 1)
         IN  IF found # ValueError THEN found
             ELSE ChannelLoopN1(refclk, rate, i1 + 1)

GTHChannelPLL_compute_config(refclk, rate) == ChannelLoopN1(refclk, rate, 1)

\* the band test of GTHQuadPLL.compute_config
QuadBand(vco_freq) ==
    IF FracBetween(8000, vco_freq, 13000) THEN "qpll1"
    ELSE IF FracBetween(9800, vco_freq, 16375) THEN "qpll0"
    ELSE "None"

RECURSIVE QuadLoopD(_, _, _, _, _, _, _)

\* QuadLoopD that compares vco_freq*2/d, not (vco_freq/2)*2/d, with the rate
QuadLoopD_NoHalf(refclk, rate, n, m, vco_freq, qpll, id) ==
    IF id > Len(GTH_d) THEN ValueError
    ELSE LET d == GTH_d[id]
         IN  IF vco_freq.num * 2 = rate * (vco_freq.den * d)
             THEN [status |-> "ok", n |-> n, m |-> m, d |-> d,
                   vco_freq |-> vco_freq, qpll |-> qpll, clkin |-> refclk,
                   clkout |-> Frac(vco_freq.num, vco_freq.den * 2),
                   linerate |-> rate]
             ELSE QuadLoopD(refclk, rate, n, m, vco_freq, qpll, id + 1)

\* GTHQuadPLL.compute_config: `for d in 1, 2, 4, 8, 16` from GTH_d[id] on
QuadLoopD(refclk, rate, n, m, vco_freq, qpll, id) ==
    IF id > Len(GTH_d) THEN ValueError
    ELSE LET d == GTH_d[id]
         IN  IF vco_freq.num * 2 = rate * (vco_freq.den * 2 * d)
             THEN [status |-> "ok", n |-> n, m |-> m, d |-> d,
                   vco_freq |-> vco_freq, qpll |-> qpll, clkin |-> refclk,
                   clkout |-> Frac(vco_freq.num, vco_freq.den * 2),
                   linerate |-> rate]
             ELSE QuadLoopD(refclk, rate, n, m, vco_freq, qpll, id + 1)

\* `for m in 1, 2, 3, 4` from GTHQuadPLL_m[im] on
RECURSIVE QuadLoopM(_, _, _, _)
QuadLoopM(refclk, rate, n, im) ==
    IF im > Len(GTHQuadPLL_m) THEN ValueError
    ELSE LET m == GTHQuadPLL_m[im]
             vco_freq == Frac(refclk * n, m)
             qpll == QuadBand(vco_freq)
             found == IF qpll # "None"
                      THEN QuadLoopD(refclk, rate, n, m, vco_freq, qpll, 1)
                      ELSE ValueError
         IN  IF found # ValueError THEN found
             ELSE QuadLoopM(refclk, rate, n, im + 1)

\* `for n in [16, ..., 160]` from GTHQuadPLL_n[in] on
RECURSIVE QuadLoopN(_, _, _)
QuadLoopN(refclk, rate, in) ==
    IF in > Len(GTHQuadPLL_n) THEN ValueError
    ELSE LET found == QuadLoopM(refclk, rate, GTHQuadPLL_n[in], 1)
         IN  IF found # ValueError THEN found
             ELSE QuadLoopN(refclk, rate, in + 1)

GTHQuadPLL_compute_config(refclk, rate) == QuadLoopN(refclk, rate, 1)

----------------------------------------------------------------------------
(* Lane streams the caller builds *)

DataOctets == {124, 252} \cup (1..MaxData)

\* frames of lane i carry i-1 leading octets and then the final octet
MakeFrame(i, d) == [k \in 1..i |-> IF k = i THEN d ELSE i - 1]

\* the frames finals[lo+1..hi] as lane i
MakeLane(i, finals, lo, hi) ==
    [j \in 1..(hi - lo) |-> MakeFrame(i, finals[lo + j])]

CutAt(cuts, i, L, T) == IF i = 0 THEN 0 ELSE IF i = L THEN T ELSE cuts[i]

MakeStream(finals, cuts, L, T) ==
    [i \in 1..L |->
        MakeLane(i, finals, CutAt(cuts, i - 1, L, T), CutAt(cuts, i, L, T))]

Cuts(L, T) == { c \in [1..(L - 1) -> 0..T] :
                 \A i \in 1..(L - 2) : c[i] <= c[i + 1] }

----------------------------------------------------------------------------
(* Idle values of the components a specification does not exercise *)

LinkIdle ==
    /\ link = LinkLayer(1, FALSE)
    /\ scrambled_arg = FALSE
    /\ orig = <<>>
    /\ arg = <<>>
    /\ lanes = <<>>
    /\ new_lanes = <<>>
    /\ link_pc = "idle"
    /\ split = 0
    /\ first_out = <<>>

CfgIdle ==
    /\ cd = <<>>
    /\ nset = 0
    /\ octets = <<>>
    /\ settings = <<>>
    /\ lid_arg = 0
    /\ cfg_pc = "idle"

PllIdle ==
    /\ refclk_freq = 0
    /\ linerate = 0
    /\ config = <<>>
    /\ pll_pc = "idle"

----------------------------------------------------------------------------
(* Specification of the link layer *)

InitLink ==
    /\ \E K \in 1..MaxK, scr \in BOOLEAN :
          /\ link = LinkLayer(K, scr)
          /\ scrambled_arg = scr
    /\ \E L \in 1..MaxLanes, T \in 0..MaxFrames :
          \E finals \in [1..T -> DataOctets], cuts \in Cuts(L, T) :
              orig = MakeStream(finals, cuts, L, T)
    /\ lanes = orig
    /\ arg = <<>>
    /\ new_lanes = <<>>
    /\ link_pc = "new"
    /\ split = 0
    /\ first_out = <<>>
    /\ CfgIdle
    /\ PllIdle

\* lanes = link.insert_alignment_characters(lanes)
Insert ==
    /\ link_pc = "new"
    /\ arg' = lanes
    /\ new_lanes' = insert_alignment_characters(link, lanes)
    /\ lanes' = new_lanes'
    /\ link_pc' = "inserted"
    /\ UNCHANGED <<link, scrambled_arg, orig, split, first_out,
                   cfgVars, pllVars>>

\* lanes = link.remove_alignment_characters(lanes)
Remove ==
    /\ link_pc = "inserted"
    /\ arg' = lanes
    /\ new_lanes' = remove_alignment_characters(link, lanes)
    /\ lanes' = new_lanes'
    /\ link_pc' = "removed"
    /\ UNCHANGED <<link, scrambled_arg, orig, split, first_out,
                   cfgVars, pllVars>>

NextLink == Insert \/ Remove

SpecLink == InitLink /\ [][NextLink]_vars

----------------------------------------------------------------------------
(* Specification of one lane given to the link layer in two calls *)

\* lane[:c] and lane[c:] of every lane
HeadFrames(ls, c) == [i \in 1..Len(ls) |-> SubSeq(ls[i], 1, c)]
TailFrames(ls, c) == [i \in 1..Len(ls) |-> SubSeq(ls[i], c + 1, Len(ls[i]))]

ConcatLanes(a, b) == [i \in 1..Len(a) |-> a[i] \o b[i]]

\* the places after a whole number of multiframes where the lane can be cut
SplitPoints(ls) ==
    { c \in 1..Len(ls[1]) : c % link.frames_per_multiframe = 0 }

InitSplit ==
    /\ \E K \in 1..MaxK, scr \in BOOLEAN :
          /\ link = LinkLayer(K, scr)
          /\ scrambled_arg = scr
    /\ \E T \in 0..MaxFrames :
          \E finals \in [1..T -> DataOctets] :
              orig = MakeStream(finals, <<>>, 1, T)
    /\ lanes = orig
    /\ arg = <<>>
    /\ new_lanes = <<>>
    /\ link_pc = "new"
    /\ split = 0
    /\ first_out = <<>>
    /\ CfgIdle
    /\ PllIdle

\* head = link.insert_alignment_characters([lane[:c] for lane in lanes])
InsertHead ==
    /\ link_pc = "new"
    /\ \E c \in SplitPoints(lanes) :
          /\ split' = c
          /\ arg' = HeadFrames(lanes, c)
          /\ new_lanes' = insert_alignment_characters(link, arg')
          /\ lanes' = ConcatLanes(new_lanes', TailFrames(lanes, c))
    /\ first_out' = new_lanes'
    /\ link_pc' = "insert_head"
    /\ UNCHANGED <<link, scrambled_arg, orig, cfgVars, pllVars>>

\* tail = link.insert_alignment_characters([lane[c:] for lane in lanes])
InsertTail ==
    /\ link_pc = "insert_head"
    /\ arg' = TailFrames(lanes, split)
    /\ new_lanes' = insert_alignment_characters(link, arg')
    /\ lanes' = ConcatLanes(HeadFrames(lanes, split), new_lanes')
    /\ link_pc' = "inserted2"
    /\ UNCHANGED <<link, scrambled_arg, orig, split, first_out,
                   cfgVars, pllVars>>

\* head = link.remove_alignment_characters([lane[:c] for lane in lanes])
RemoveHead ==
    /\ link_pc = "inserted"
    /\ \E c \in SplitPoints(lanes) :
          /\ split' = c
          /\ arg' = HeadFrames(lanes, c)
          /\ new_lanes' = remove_alignment_characters(link, arg')
          /\ lanes' = ConcatLanes(new_lanes', TailFrames(lanes, c))
    /\ first_out' = new_lanes'
    /\ link_pc' = "remove_head"
    /\ UNCHANGED <<link, scrambled_arg, orig, cfgVars, pllVars>>

\* tail = link.remove_alignment_characters([lane[c:] for lane in lanes])
RemoveTail ==
    /\ link_pc = "remove_head"
    /\ arg' = TailFrames(lanes, split)
    /\ new_lanes' = remove_alignment_characters(link, arg')
    /\ lanes' = ConcatLanes(HeadFrames(lanes, split), new_lanes')
    /\ link_pc' = "removed2"
    /\ UNCHANGED <<link, scrambled_arg, orig, split, first_out,
                   cfgVars, pllVars>>

NextSplit == Insert \/ InsertHead \/ InsertTail \/ RemoveHead \/ RemoveTail

SpecSplit == InitSplit /\ [][NextSplit]_vars

----------------------------------------------------------------------------
(* Specification of removal on a stream that insertion did not produce *)

\* final octets a receiver can be handed: data octets, the two alignment
\* codes with the tag bit, and a data octet with the tag bit
ReceivedOctets ==
    {1, 124, 252} \cup
    { BitOr(is_control_character, d) :
          d \in {1, control_characters.A, control_characters.F} }

InitReceived ==
    /\ \E K \in 1..MaxK, scr \in BOOLEAN :
          /\ link = LinkLayer(K, scr)
          /\ scrambled_arg = scr
    /\ \E L \in 1..MaxLanes, T \in 0..MaxReceived :
          \E finals \in [1..T -> ReceivedOctets], cuts \in Cuts(L, T) :
              orig = MakeStream(finals, cuts, L, T)
    /\ lanes = orig
    /\ arg = <<>>
    /\ new_lanes = <<>>
    /\ link_pc = "received"
    /\ split = 0
    /\ first_out = <<>>
    /\ CfgIdle
    /\ PllIdle

\* lanes = link.remove_alignment_characters(lanes) on the received stream
RemoveReceived ==
    /\ link_pc = "received"
    /\ arg' = lanes
    /\ new_lanes' = remove_alignment_characters(link, lanes)
    /\ lanes' = new_lanes'
    /\ link_pc' = "decoded"
    /\ UNCHANGED <<link, scrambled_arg, orig, split, first_out,
                   cfgVars, pllVars>>

NextReceived == RemoveReceived

SpecReceived == InitReceived /\ [][NextReceived]_vars

----------------------------------------------------------------------------
(* Specification of a configuration descriptor filled in by hand *)

FieldValues == {1, Pow2(MaxBits - 1) - 1, Pow2(MaxBits) - 1}

DefaultSettings ==
    JESD204BSettings(JESD204BPhysicalSettings(1, 1, 1, 1, 1),
                     JESD204BTransportSettings(1, 1, 1, 0), 0, 0, 0)

InitDesc ==
    /\ cd = JESD204BConfigurationData
    /\ nset = 0
    /\ octets = <<>>
    /\ settings = DefaultSettings
    /\ lid_arg = 0
    /\ cfg_pc = "fresh"
    /\ LinkIdle
    /\ PllIdle

\* setattr(cd, name, v)
SetField ==
    /\ cfg_pc = "fresh"
    /\ nset < MaxSets
    /\ \E name \in FieldNames, v \in FieldValues :
          cd' = [cd EXCEPT ![name] = v]
    /\ nset' = nset + 1
    /\ UNCHANGED <<octets, settings, lid_arg, cfg_pc, linkVars, pllVars>>

\* octets = cd.get_octets()
GetOctets ==
    /\ cfg_pc = "fresh"
    /\ octets' = get_octets(cd)
    /\ cfg_pc' = "octets"
    /\ UNCHANGED <<cd, nset, settings, lid_arg, linkVars, pllVars>>

NextDesc == SetField \/ GetOctets

SpecDesc == InitDesc /\ [][NextDesc]_vars

----------------------------------------------------------------------------
(* Specification of the descriptors a link's settings produce *)

\* the lane ids descriptors are asked for
LaneIds == {0, 1, 21, 31}

InitSettings ==
    /\ \E l \in {1, 32}, m \in {1, 256}, n \in {1, 32}, np \in {1, 32},
          subclassv \in {0, 1, 7}, f \in {1, 256}, s \in {1, 32},
          k \in {1, 32}, cs \in {0, 3}, did \in {0, 165, 255},
          bid \in {0, 15}, hd \in {0, 1} :
          settings =
              JESD204BSettings(JESD204BPhysicalSettings(l, m, n, np, subclassv),
                               JESD204BTransportSettings(f, s, k, cs),
                               did, bid, hd)
    /\ cd = JESD204BConfigurationData
    /\ nset = 0
    /\ octets = <<>>
    /\ lid_arg = 0
    /\ cfg_pc = "settings"
    /\ LinkIdle
    /\ PllIdle

\* octets = settings.get_configuration_data(lid)
GetConfigurationData ==
    /\ cfg_pc = "settings"
    /\ \E lid \in LaneIds :
          /\ lid_arg' = lid
          /\ cd' = ConfigurationDataOf(settings, lid)
          /\ octets' = get_configuration_data(settings, lid)
    /\ cfg_pc' = "configured"
    /\ UNCHANGED <<nset, settings, linkVars, pllVars>>

NextSettings == GetConfigurationData

SpecSettings == InitSettings /\ [][NextSettings]_vars

----------------------------------------------------------------------------
(* Specification of the clock synthesis searches *)

InitPll ==
    /\ refclk_freq \in { 125 * i : i \in 1..MaxRefMult }
    /\ linerate \in { 125 * j : j \in 1..MaxRateMult }
    /\ config = <<>>
    /\ pll_pc = "ready"
    /\ LinkIdle
    /\ CfgIdle

\* GTHChannelPLL.__init__: self.config = self.compute_config(...)
ComputeChannelPLL ==
    /\ pll_pc = "ready"
    /\ config' = GTHChannelPLL_compute_config(refclk_freq, linerate)
    /\ pll_pc' = "cpll"
    /\ UNCHANGED <<refclk_freq, linerate, linkVars, cfgVars>>

\* GTHQuadPLL.__init__: self.config = self.compute_config(...)
ComputeQuadPLL ==
    /\ pll_pc = "ready"
    /\ config' = GTHQuadPLL_compute_config(refclk_freq, linerate)
    /\ pll_pc' = "qpll"
    /\ UNCHANGED <<refclk_freq, linerate, linkVars, cfgVars>>

NextPll == ComputeChannelPLL \/ ComputeQuadPLL

SpecPll == InitPll /\ [][NextPll]_vars

----------------------------------------------------------------------------
(* Properties of the link layer *)

IsTagged(x) == BitAnd(x, is_control_character) # 0

TaggedA == BitOr(is_control_character, control_characters.A)
TaggedF == BitOr(is_control_character, control_characters.F)

\* positions (lane, frame) of a lane stream, both 1-based
Positions(ls) == { p \in (1..MaxLanes + 1) \X (1..MaxFrames + 1) :
                     p[1] <= Len(ls) /\ p[2] <= Len(ls[p[1]]) }

InFinal(p)  == FinalOctet(arg[p[1]][p[2]])
OutFinal(p) == FinalOctet(new_lanes[p[1]][p[2]])
Boundary(p) == (p[2] % link.frames_per_multiframe) = 0

\* C1: removing the alignment characters of an inserted stream gives back
\* the stream the caller built, for every K and both constructor settings.
C1_RoundTrip == link_pc = "removed" => new_lanes = orig

C1_Witness ==
    /\ link_pc = "removed"
    /\ scrambled_arg
    /\ new_lanes = orig
    /\ \E p \in Positions(arg) : InFinal(p) = TaggedA
    /\ \E p \in Positions(arg) : InFinal(p) = TaggedF

\* C5: an aligner constructed with scrambling enabled replaces a final
\* octet 0x7C on a multiframe boundary by tagged /A/, a final octet 0xFC by
\* tagged /F/ and leaves every other final octet alone.
C5_ScrambledInsert ==
    (link_pc = "inserted" /\ scrambled_arg) =>
        \A p \in Positions(arg) :
            OutFinal(p) = IF InFinal(p) = 124 /\ Boundary(p) THEN TaggedA
                          ELSE IF InFinal(p) = 252 THEN TaggedF
                          ELSE InFinal(p)

\* C6 as stated: in non-scrambled insertion frame n >= 1 is replaced iff
\* its original final octet equals the original final octet of frame n-1.
C6_Original ==
    (link_pc = "inserted" /\ ~scrambled_arg) =>
        \A p \in Positions(arg) :
            p[2] >= 2 =>
                (IsTagged(OutFinal(p))
                    <=> InFinal(p) = InFinal(<<p[1], p[2] - 1>>))

\* C6 amended: in non-scrambled insertion frame n >= 1 is replaced iff its
\* original final octet equals the original final octet of frame n-1 and
\* frame n-1 was not itself replaced; a frame that is not replaced keeps
\* its final octet.
C6_Amended ==
    (link_pc = "inserted" /\ ~scrambled_arg) =>
        \A p \in Positions(arg) :
            p[2] >= 2 =>
                /\ IsTagged(OutFinal(p))
                     <=> /\ InFinal(p) = InFinal(<<p[1], p[2] - 1>>)
                         /\ ~IsTagged(OutFinal(<<p[1], p[2] - 1>>))
                /\ ~IsTagged(OutFinal(p)) => OutFinal(p) = InFinal(p)

C6_Witness ==
    /\ link_pc = "inserted"
    /\ ~scrambled_arg
    /\ \E p \in Positions(arg) :
          /\ p[2] >= 3
          /\ InFinal(p) = InFinal(<<p[1], p[2] - 1>>)
          /\ InFinal(p) = InFinal(<<p[1], p[2] - 2>>)
          /\ IsTagged(OutFinal(<<p[1], p[2] - 1>>))
          /\ ~IsTagged(OutFinal(p))

\* C7: in non-scrambled insertion every tagged final octet of the output is
\* /A/ on the last frame of a multiframe and /F/ on any other frame.
C7_BoundaryCode ==
    (link_pc = "inserted" /\ ~scrambled_arg) =>
        \A p \in Positions(new_lanes) :
            IsTagged(OutFinal(p)) =>
                OutFinal(p) = IF Boundary(p) THEN TaggedA ELSE TaggedF

C7_Witness ==
    /\ link_pc = "inserted"
    /\ ~scrambled_arg
    /\ link.frames_per_multiframe > 1
    /\ \E p \in Positions(new_lanes) : OutFinal(p) = TaggedA
    /\ \E p \in Positions(new_lanes) : OutFinal(p) = TaggedF

\* C8: an aligner constructed with scrambling enabled removes tagged /A/
\* as the data octet 0x7C and tagged /F/ as the data octet 0xFC whatever the
\* previous frame held, and leaves untagged final octets alone.
C8_ScrambledRemove ==
    (link_pc = "removed" /\ scrambled_arg) =>
        \A p \in Positions(arg) :
            OutFinal(p) = IF InFinal(p) = TaggedA THEN 124
                          ELSE IF InFinal(p) = TaggedF THEN 252
                          ELSE InFinal(p)

----------------------------------------------------------------------------
(* Properties of the configuration descriptor *)

\* bits [offset, offset+width) of the octet the field lives in
DecodeField(octs, name) ==
    LET field == configuration_data_fields[name]
    IN  (octs[field.octet + 1] \div Pow2(field.offset)) % Pow2(field.width)

\* C2: element 13 of the result is the sum of its elements 0..10 modulo 256,
\* and it would be the same with chksum, res1 and res2 all zero.
C2_Checksum ==
    cfg_pc = "octets" =>
        /\ octets[14] = SumOctets(octets, 11) % 256
        /\ octets[14] = get_octets([cd EXCEPT !["chksum"] = 0,
                                              !["res1"] = 0,
                                              !["res2"] = 0])[14]

C2_Witness ==
    /\ cfg_pc = "octets"
    /\ cd["chksum"] # 0 \/ cd["res1"] # 0 \/ cd["res2"] # 0
    /\ SumOctets(octets, 11) >= 256
    /\ octets[14] = SumOctets(octets, 11) % 256
    /\ octets[14] # BitAnd(cd["chksum"], 255)

\* C3: every field other than chksum reads back from its own bit range of
\* the result as its value masked to its width.
C3_FieldsIntact ==
    cfg_pc = "octets" =>
        \A name \in FieldNames \ {"chksum"} :
            DecodeField(octets, name)
                = cd[name] % Pow2(configuration_data_fields[name].width)

\* C4: the result has exactly 14 elements and each of them is an octet.
C4_OctetRange ==
    cfg_pc = "octets" =>
        /\ Len(octets) = 14
        /\ \A i \in 1..Len(octets) : octets[i] \in 0..255

\* C9: the descriptor of a lane decodes to the configured identifiers and
\* flags verbatim, to every count minus one, and to zero adjustment fields.
C9_DecodeSettings ==
    cfg_pc = "configured" =>
        /\ DecodeField(octets, "did") = settings.did
        /\ DecodeField(octets, "bid") = settings.bid
        /\ DecodeField(octets, "lid") = lid_arg
        /\ DecodeField(octets, "cs") = settings.transport.cs
        /\ DecodeField(octets, "subclassv") = settings.phy.subclassv
        /\ DecodeField(octets, "jesdv") = settings.phy.jesdv
        /\ DecodeField(octets, "hd") = settings.hd
        /\ DecodeField(octets, "l") + 1 = settings.phy.l
        /\ DecodeField(octets, "m") + 1 = settings.phy.m
        /\ DecodeField(octets, "n") + 1 = settings.phy.n
        /\ DecodeField(octets, "np") + 1 = settings.phy.np
        /\ DecodeField(octets, "f") + 1 = settings.transport.f
        /\ DecodeField(octets, "k") + 1 = settings.transport.k
        /\ DecodeField(octets, "s") + 1 = settings.transport.s
        /\ DecodeField(octets, "adjcnt") = 0
        /\ DecodeField(octets, "adjdir") = 0
        /\ DecodeField(octets, "phadj") = 0

C9_Witness ==
    /\ cfg_pc = "configured"
    /\ lid_arg = 31
    /\ settings.did = 255
    /\ settings.bid = 15
    /\ settings.phy.l = 32
    /\ settings.transport.k = 32
    /\ settings.transport.cs = 3
    /\ settings.phy.subclassv = 7
    /\ DecodeField(octets, "k") = 31
    /\ DecodeField(octets, "lid") = 31

----------------------------------------------------------------------------
(* Properties of the clock synthesis searches *)

Elems(seq) == { seq[i] : i \in 1..Len(seq) }

\* divider tuples of Topology A that are in band and exact for the inputs
ChannelSolutions ==
    { t \in Elems(GTHChannelPLL_n1) \X Elems(GTHChannelPLL_n2)
            \X Elems(GTHChannelPLL_m) \X Elems(GTH_d) :
        /\ 2000 * t[3] <= refclk_freq * t[1] * t[2]
        /\ refclk_freq * t[1] * t[2] <= 6250 * t[3]
        /\ refclk_freq * t[1] * t[2] * 2 = linerate * t[3] * t[4] }

\* divider tuples of Topology B that are in band and exact for the inputs
QuadSolutions ==
    { t \in Elems(GTHQuadPLL_n) \X Elems(GTHQuadPLL_m) \X Elems(GTH_d) :
        /\ 8000 * t[2] <= refclk_freq * t[1]
        /\ refclk_freq * t[1] <= 16375 * t[2]
        /\ refclk_freq * t[1] = linerate * t[2] * t[3] }

\* C10: each search raises ValueError iff no tuple of its domain is in band
\* and exact, and a returned tuple is in the domain, in band and exact.
C10_ExactOrError ==
    /\ pll_pc = "cpll" =>
          /\ config.status = "ValueError" <=> ChannelSolutions = {}
          /\ config.status = "ok" =>
                <<config.n1, config.n2, config.m, config.d>>
                    \in ChannelSolutions
    /\ pll_pc = "qpll" =>
          /\ config.status = "ValueError" <=> QuadSolutions = {}
          /\ config.status = "ok" =>
                <<config.n, config.m, config.d>> \in QuadSolutions

\* the search fails although some tuple is exact, because its VCO frequency
\* is out of band
C10_Witness ==
    /\ pll_pc = "cpll"
    /\ config.status = "ValueError"
    /\ \E t \in Elems(GTHChannelPLL_n1) \X Elems(GTHChannelPLL_n2)
               \X Elems(GTHChannelPLL_m) \X Elems(GTH_d) :
          refclk_freq * t[1] * t[2] * 2 = linerate * t[3] * t[4]

\* q * 2 / d = rate for the fraction q
TwiceOverD(q, d, rate) == q.num * 2 = rate * (q.den * d)

\* C11 as stated: every returned record of either topology satisfies
\* vco_freq * 2 / d = linerate.
C11_Original ==
    (pll_pc \in {"cpll", "qpll"} /\ config.status = "ok") =>
        TwiceOverD(config.vco_freq, config.d, config.linerate)

\* C11 amended: a Topology A record satisfies vco_freq * 2 / d = linerate; a
\* Topology B record satisfies clkout * 2 / d = linerate with
\* clkout = vco_freq / 2, that is vco_freq / d = linerate.
C11_Amended ==
    /\ (pll_pc = "cpll" /\ config.status = "ok") =>
          TwiceOverD(config.vco_freq, config.d, config.linerate)
    /\ (pll_pc = "qpll" /\ config.status = "ok") =>
          /\ TwiceOverD(config.clkout, config.d, config.linerate)
          /\ config.clkout.num * config.vco_freq.den * 2
                = config.vco_freq.num * config.clkout.den
          /\ config.vco_freq.num
                = config.linerate * (config.vco_freq.den * config.d)

C11_Witness ==
    /\ pll_pc = "qpll"
    /\ config.status = "ok"
    /\ config.d > 1
    /\ TwiceOverD(config.clkout, config.d, config.linerate)
    /\ ~TwiceOverD(config.vco_freq, config.d, config.linerate)

\* C12: settings whose derived divisions are not exact are rejected, so the
\* settings object of a constructed link has exact octets_per_frame and
\* octets_per_lane.
C12_RejectsInexact ==
    cfg_pc \in {"settings", "configured"} =>
        /\ (settings.samples_per_frame * settings.nibbles_per_word) % 2 = 0
        /\ (settings.octets_per_frame * settings.nconverters)
               % settings.nlanes = 0

\* C13: get_octets returns for every field value, and the result is the one
\* it returns with the field reduced modulo 2^width, the other fields equal.
C13_MaskedNotRejected ==
    cfg_pc = "octets" =>
        /\ Len(octets) = configuration_data_length
        /\ \A name \in FieldNames \ {"chksum"} :
              octets = get_octets([cd EXCEPT ![name] =
                  cd[name] % Pow2(configuration_data_fields[name].width)])

C13_Witness ==
    /\ cfg_pc = "octets"
    /\ \E name \in FieldNames \ {"chksum"} :
          /\ cd[name] >= Pow2(configuration_data_fields[name].width)
          /\ cd[name] % Pow2(configuration_data_fields[name].width) # 0
          /\ octets = get_octets([cd EXCEPT ![name] =
                 cd[name] % Pow2(configuration_data_fields[name].width)])

----------------------------------------------------------------------------
(* Further properties of the link layer *)

\* no two consecutive frames of the lane have equal final octets
NoRepeat(lane) ==
    \A j \in 2..Len(lane) : FinalOctet(lane[j]) # FinalOctet(lane[j - 1])

\* C14: non-scrambled insertion returns a lane without equal consecutive
\* final octets unchanged, whatever the other lanes hold.
C14_NoRepeatUnchanged ==
    (link_pc = "inserted" /\ ~scrambled_arg) =>
        \A i \in 1..Len(arg) : NoRepeat(arg[i]) => new_lanes[i] = arg[i]

C14_Witness ==
    /\ link_pc = "inserted"
    /\ ~scrambled_arg
    /\ Len(arg) = 2
    /\ \E j \in 1..Len(new_lanes[1]) : IsTagged(FinalOctet(new_lanes[1][j]))
    /\ Len(arg[2]) >= 2
    /\ NoRepeat(arg[2])
    /\ FinalOctet(arg[2][1]) = LastWritten(arg[1])
    /\ new_lanes[2] = arg[2]

\* what one call on the whole stream returns
WholeInsert == insert_alignment_characters(link, orig)
WholeRemove == remove_alignment_characters(link, WholeInsert)

\* the final octet of the first frame after the cut, -1 without such a frame
AfterCut(ls) ==
    IF split < Len(ls[1]) THEN FinalOctet(ls[1][split + 1]) ELSE -1

\* C15 as stated: two successive calls on a lane cut after a multiple of K
\* frames return what one call on the whole lane returns.
C15_Original ==
    /\ link_pc = "inserted2" =>
          ConcatLanes(first_out, new_lanes) = WholeInsert
    /\ link_pc = "removed2" =>
          ConcatLanes(first_out, new_lanes) = WholeRemove

\* C15 amended: last_dn is reset at the start of every call, so two calls
\* return what one call returns iff the first frame after the cut carries
\* no alignment character in the one-call insertion output.
C15_Amended ==
    /\ link_pc = "inserted2" =>
          (ConcatLanes(first_out, new_lanes) = WholeInsert
              <=> (AfterCut(WholeInsert) = -1
                     \/ ~IsTagged(AfterCut(WholeInsert))))
    /\ link_pc = "removed2" =>
          (ConcatLanes(first_out, new_lanes) = WholeRemove
              <=> (AfterCut(WholeInsert) = -1
                     \/ ~IsTagged(AfterCut(WholeInsert))))

C15_Witness ==
    /\ link_pc = "inserted2"
    /\ split < Len(orig[1])
    /\ IsTagged(AfterCut(WholeInsert))
    /\ ~IsTagged(FinalOctet(new_lanes[1][1]))
    /\ ConcatLanes(first_out, new_lanes) # WholeInsert

\* the lanes of a stream in the opposite order
ReverseLanes(ls) == [i \in 1..Len(ls) |-> ls[Len(ls) + 1 - i]]

LexLeq(a, b) ==
    \/ a = b
    \/ \E k \in 1..4 : a[k] < b[k] /\ \A h \in 1..(k - 1) : a[h] = b[h]

\* C17: the tuple Topology A returns is the least, in the order n1, n2, m, d,
\* of the tuples that are in band and exact for the inputs.
C17_FirstMatch ==
    (pll_pc = "cpll" /\ config.status = "ok") =>
        /\ <<config.n1, config.n2, config.m, config.d>> \in ChannelSolutions
        /\ \A t \in ChannelSolutions :
              LexLeq(<<config.n1, config.n2, config.m, config.d>>, t)

C17_Witness ==
    /\ pll_pc = "cpll"
    /\ config.status = "ok"
    /\ \E t \in ChannelSolutions : t[1] # config.n1
    /\ \A t \in ChannelSolutions :
          LexLeq(<<config.n1, config.n2, config.m, config.d>>, t)

\* the two streams have the same lanes, frames and frame lengths, and
\* differ at most in the final octets of their frames
SameButFinal(a, b) ==
    /\ Len(a) = Len(b)
    /\ \A i \in 1..Len(a) :
          /\ Len(a[i]) = Len(b[i])
          /\ \A j \in 1..Len(a[i]) :
                /\ Len(a[i][j]) = Len(b[i][j])
                /\ \A k \in 1..(Len(a[i][j]) - 1) : a[i][j][k] = b[i][j][k]

\* C18: insertion and removal keep the number of lanes, of frames and of
\* octets, and every octet of a frame but the last.
C18_OnlyFinalOctet ==
    link_pc \in {"inserted", "removed"} => SameButFinal(arg, new_lanes)

C18_Witness ==
    /\ link_pc = "removed"
    /\ Len(arg) = 2
    /\ \E j \in 1..Len(arg[2]) :
          /\ Len(arg[2][j]) = 2
          /\ FinalOctet(new_lanes[2][j]) # FinalOctet(arg[2][j])
          /\ new_lanes[2][j][1] = arg[2][j][1]

\* C19: for the same settings the descriptors of two lanes differ at most
\* in element 2 and element 13, and the checksum of lane lid is the checksum
\* of lane 0 plus lid, modulo 256.
C19_LaneIdOnly ==
    cfg_pc = "configured" =>
        /\ \A lid2 \in LaneIds :
              LET other == get_configuration_data(settings, lid2)
              IN  \A i \in 1..configuration_data_length :
                      (i - 1) \notin {2, 13} => octets[i] = other[i]
        /\ octets[configuration_data_length]
              = (get_configuration_checksum(settings, 0) + lid_arg) % 256

C19_Witness ==
    /\ cfg_pc = "configured"
    /\ lid_arg = 31
    /\ get_configuration_checksum(settings, 0) + lid_arg >= 256
    /\ octets[3] # get_configuration_data(settings, 0)[3]
    /\ octets[14] # get_configuration_data(settings, 0)[14]
    /\ octets[14] = (get_configuration_checksum(settings, 0) + 31) % 256

\* C20: in the output of non-scrambled insertion the first frame of a lane
\* never carries a tagged final octet, and no two consecutive frames of a
\* lane both carry one.
C20_NoAdjacentTags ==
    (link_pc = "inserted" /\ ~scrambled_arg) =>
        \A p \in Positions(new_lanes) :
            /\ p[2] = 1 => ~IsTagged(OutFinal(p))
            /\ p[2] >= 2 =>
                  ~(IsTagged(OutFinal(<<p[1], p[2] - 1>>))
                        /\ IsTagged(OutFinal(p)))

C20_Witness ==
    /\ link_pc = "inserted"
    /\ ~scrambled_arg
    /\ \E p \in Positions(arg) :
          /\ p[2] = 4
          /\ \A j \in 1..4 : InFinal(<<p[1], j>>) = InFinal(p)
          /\ ~IsTagged(OutFinal(<<p[1], 1>>))
          /\ IsTagged(OutFinal(<<p[1], 2>>))
          /\ ~IsTagged(OutFinal(<<p[1], 3>>))
          /\ IsTagged(OutFinal(p))

\* C21: removal on a stream of arbitrary 9-bit final octets returns a
\* stream whose final octets are all untagged data octets in 0..255.
C21_DecodedOctets ==
    link_pc = "decoded" =>
        \A p \in Positions(new_lanes) : OutFinal(p) \in 0..255

\* C22: after insertion or removal returns, the caller's input lane stream
\* holds the octets it held at the call.  lanes is the stream object the
\* caller passed: the call writes its frames (frame[-1] = dn) and returns
\* those same frames.
C22_ArgumentKept ==
    link_pc \in {"inserted", "removed"} => lanes = arg

====
